---- MODULE Spec2Model ----
(***************************************************************************)
(* Model of the tako compiler front end: the lexer (src/src/lex.cc), the   *)
(* driver that threads one compilation unit through the stages            *)
(* (src/src/compile.cc, src/main.cc), and the tree builder and extractor   *)
(* as the test cases of src/test/parser_tests.cc call them.                *)
(*                                                                         *)
(* A source text is a sequence of bytes, each byte written as a string of  *)
(* one character.  Offsets are 0-based as in the C++ code: At(s, i) is     *)
(* s[i].                                                                   *)
(***************************************************************************)
EXTENDS Integers, Sequences, FiniteSets, TLC

VARIABLES
  msgs,        \* Messages: the message log shared by every Context
  content,     \* ctx.content: the source text of the current unit
  filename,    \* ctx.filename
  step,        \* the pass step recorded by ctx.startStep
  pos,         \* lex: Position pos
  toks,        \* lex: Tokens toks (afterwards the value lex returned)
  pc,          \* position of the (single) thread of control
  runner,      \* who runs the units: "test" (a test case), "batch" (the
               \* loop over the targets), "repl" (the loop over the lines)
  tree,        \* getTree: optional tree, "none" or "tree"
  o_mod,       \* optional module returned by the extractor
  replContent, \* main: std::string content accumulated by the REPL
  line,        \* main: the REPL line being run
  filesRun,    \* main: targets compiled so far
  linesRun,    \* main: REPL lines read so far
  last_step,   \* main: PassStep last_step, handed to every Context
  ran,         \* history: stages invoked for the current unit, in order
  emitted,     \* history: messages appended during the current unit
  shown,       \* history: messages displayed during the current unit
  exit         \* history: the path on which the current unit ended

lexVars == <<pos, toks>>
ctxVars == <<content, filename>>
mainVars == <<replContent, line, filesRun, linesRun, last_step>>
histVars == <<ran, emitted, shown, exit>>
vars == <<msgs, content, filename, step, pos, toks, pc, runner, tree, o_mod,
          replContent, line, filesRun, linesRun, last_step, ran, emitted,
          shown, exit>>

----------------------------------------------------------------------------
(* Bounds of the model.                                                    *)

MaxLen == 4        \* longest source text given to lex by a test case
MaxFiles == 2      \* files in a batch
MaxLines == 2      \* lines typed into the REPL
MaxUnitLen == 1    \* longest file, and longest REPL line

----------------------------------------------------------------------------
(* Character classes, src/src/lex.cc:8-16.                                 *)

lower == {"a","b","c","d","e","f","g","h","i","j","k","l","m",
          "n","o","p","q","r","s","t","u","v","w","x","y","z"}
upper == {"A","B","C","D","E","F","G","H","I","J","K","L","M",
          "N","O","P","Q","R","S","T","U","V","W","X","Y","Z"}
nums == {"0","1","2","3","4","5","6","7","8","9"}

whiteSpace == {" ", "\t", "\n", "\r"}
numberChar == {"."} \cup nums
\* The ASCII members of operatorChar; its other members are the bytes of the
\* UTF-8 encodings of the non-ASCII operators, none of which is a byte of
\* the alphabets below.
operatorChar == {"-","+","&","#","@","<",">","^","~","%","|","=","$",
                 "\\","/","*",":","?","!","."}
symbolChar == lower \cup upper \cup nums \cup {"_"}
\* The back quote cannot be written inside a TLA+ string: the byte 0x60 is
\* written BackQuote.
BackQuote == "BQ"
quotes == {"'", "\"", BackQuote}

\* Mutant: the literal table without its two-byte entries.
matchToken_OneByte == <<
  [s |-> <<"(">>, type |-> "OpenParen"],
  [s |-> <<")">>, type |-> "CloseParen"],
  [s |-> <<"{">>, type |-> "OpenBrace"],
  [s |-> <<"}">>, type |-> "CloseBrace"],
  [s |-> <<"[">>, type |-> "OpenBracket"],
  [s |-> <<"]">>, type |-> "CloseBracket"],
  [s |-> <<";">>, type |-> "SemiColon"],
  [s |-> <<",">>, type |-> "Comma"] >>

\* The literal table, in the order chooseTok tries it.
matchToken == <<
  [s |-> <<"(">>, type |-> "OpenParen"],
  [s |-> <<")">>, type |-> "CloseParen"],
  [s |-> <<"{">>, type |-> "OpenBrace"],
  [s |-> <<"}">>, type |-> "CloseBrace"],
  [s |-> <<"[">>, type |-> "OpenBracket"],
  [s |-> <<"]">>, type |-> "CloseBracket"],
  [s |-> <<";">>, type |-> "SemiColon"],
  [s |-> <<"-","|">>, type |-> "PreCond"],
  [s |-> <<"|","-">>, type |-> "PostCond"],
  [s |-> <<",">>, type |-> "Comma"] >>

----------------------------------------------------------------------------
(* std::string helpers.                                                    *)

At(s, i) == s[i + 1]

\* s.substr(from): the suffix of s starting at offset from <= size.
substr(s, from) == SubSeq(s, from + 1, Len(s))

\* s.substr(0, n): the first n bytes, or all of s when it is shorter.
prefix(s, n) == SubSeq(s, 1, IF n < Len(s) THEN n ELSE Len(s))

----------------------------------------------------------------------------
(* consumeStringLiteral, src/src/lex.cc:34-49.                             *)

\* The while loop of line 39: the first offset >= len that is the end of
\* the text or holds the opening delimiter.
RECURSIVE scanLiteral(_, _, _)
scanLiteral(str, len, start) ==
  IF len < Len(str) /\ At(str, len) # start
    THEN scanLiteral(str, len + 1, start)
    ELSE len

\* Mutant: the closing delimiter is left unconsumed.
consumeStringLiteral_OpenEnded(str) ==
  IF Len(str) = 0 \/ At(str, 0) \notin quotes
    THEN 0
    ELSE scanLiteral(str, 1, At(str, 0))

consumeStringLiteral(str) ==
  IF Len(str) = 0 \/ At(str, 0) \notin quotes
    THEN 0
    ELSE LET len == scanLiteral(str, 1, At(str, 0))
         IN  IF len < Len(str) THEN len + 1 ELSE len

----------------------------------------------------------------------------
(* consumeWhiteSpace, src/src/lex.cc:51-73.                                *)

\* The loop of lines 60-62, entered with loc just past the "/*": it stops
\* at the end of the text or at a '/' whose predecessor is a '*'.
RECURSIVE blockCommentEnd(_, _)
blockCommentEnd(str, loc) ==
  IF loc < Len(str) /\ ~(At(str, loc) = "/" /\ At(str, loc - 1) = "*")
    THEN blockCommentEnd(str, loc + 1)
    ELSE loc

\* The loop of lines 66-68: it stops at the end of the text or at a newline.
RECURSIVE lineCommentEnd(_, _)
lineCommentEnd(str, loc) ==
  IF loc < Len(str) /\ At(str, loc) # "\n"
    THEN lineCommentEnd(str, loc + 1)
    ELSE loc

\* One pass of the outer for loop from offset loc.
RECURSIVE whiteSpaceFrom(_, _)
whiteSpaceFrom(str, loc) ==
  IF ~(loc < Len(str)) THEN loc
  ELSE LET cur == At(str, loc) IN
    IF cur \in whiteSpace THEN whiteSpaceFrom(str, loc + 1)
    ELSE
      LET afterBlock ==
            IF cur = "/" /\ loc + 1 < Len(str) /\ At(str, loc + 1) = "*"
              THEN blockCommentEnd(str, loc + 2) + 1
              ELSE loc
          afterLine ==
            IF \/ (cur = "/" /\ afterBlock + 1 < Len(str)
                             /\ At(str, afterBlock + 1) = "/")
               \/ cur = "#"
              THEN lineCommentEnd(str, afterBlock + 1)
              ELSE afterBlock
      IN afterLine

consumeWhiteSpace(str) == whiteSpaceFrom(str, 0)

----------------------------------------------------------------------------
(* matchesFrom, src/src/lex.cc:75-84.                                      *)

RECURSIVE matchesLoop(_, _, _)
matchesLoop(chars, str, length) ==
  IF length < Len(str) /\ At(str, length) \in chars
    THEN matchesLoop(chars, str, length + 1)
    ELSE length

matchesFrom(chars, str) == matchesLoop(chars, str, 0)

----------------------------------------------------------------------------
(* chooseTok, src/src/lex.cc:86-110.                                       *)

\* The first entry of matchToken, from index i on, that str starts with;
\* 0 when there is none.
RECURSIVE firstLiteral(_, _)
firstLiteral(str, i) ==
  IF i > Len(matchToken) THEN 0
  ELSE IF prefix(str, Len(matchToken[i].s)) = matchToken[i].s THEN i
  ELSE firstLiteral(str, i + 1)

\* Mutant: the fallback of chooseTok matches no byte.
chooseTok_EmptyFallback(str) ==
  LET lit == firstLiteral(str, 1) IN
  IF lit # 0
    THEN [type |-> matchToken[lit].type, length |-> Len(matchToken[lit].s)]
  ELSE IF consumeStringLiteral(str) # 0
    THEN [type |-> "StringLiteral", length |-> consumeStringLiteral(str)]
  ELSE IF consumeWhiteSpace(str) # 0
    THEN [type |-> "WhiteSpace", length |-> consumeWhiteSpace(str)]
  ELSE IF matchesFrom(operatorChar, str) # 0
    THEN [type |-> "Operator", length |-> matchesFrom(operatorChar, str)]
  ELSE IF matchesFrom(numberChar, str) # 0
    THEN [type |-> "NumberLiteral", length |-> matchesFrom(numberChar, str)]
  ELSE IF matchesFrom(symbolChar, str) # 0
    THEN [type |-> "Symbol", length |-> matchesFrom(symbolChar, str)]
  ELSE [type |-> "Error", length |-> 0]

chooseTok(str) ==
  LET lit == firstLiteral(str, 1) IN
  IF lit # 0
    THEN [type |-> matchToken[lit].type, length |-> Len(matchToken[lit].s)]
  ELSE IF consumeStringLiteral(str) # 0
    THEN [type |-> "StringLiteral", length |-> consumeStringLiteral(str)]
  ELSE IF consumeWhiteSpace(str) # 0
    THEN [type |-> "WhiteSpace", length |-> consumeWhiteSpace(str)]
  ELSE IF matchesFrom(operatorChar, str) # 0
    THEN [type |-> "Operator", length |-> matchesFrom(operatorChar, str)]
  ELSE IF matchesFrom(numberChar, str) # 0
    THEN [type |-> "NumberLiteral", length |-> matchesFrom(numberChar, str)]
  ELSE IF matchesFrom(symbolChar, str) # 0
    THEN [type |-> "Symbol", length |-> matchesFrom(symbolChar, str)]
  ELSE [type |-> "Error", length |-> 1]

----------------------------------------------------------------------------
(* The message log.  Context::msg and Context::done are declared outside   *)
(* the files modelled here; they are taken from their description: msg     *)
(* appends one message, done tells whether a fatal message is in the log.  *)

Message(loc, type, text) == [loc |-> loc, type |-> type, msg |-> text]

msg(log, loc, type, text) == Append(log, Message(loc, type, text))

done(log) == \E i \in 1..Len(log) : log[i].type \in {"Error", "InternalError"}

----------------------------------------------------------------------------
(* lex, src/src/lex.cc:112-140.                                            *)

Location(start, length, file) ==
  [start |-> start, length |-> length, file |-> file]

\* Lines 113-116: record the pass step, start with no token at offset 0.
lexStart ==
  /\ pc = "lexStart"
  /\ step' = "Lex"
  /\ pos' = 0
  /\ toks' = <<>>
  /\ pc' = "lex"
  /\ UNCHANGED <<msgs, ctxVars, runner, tree, o_mod, mainVars, histVars>>

\* Lines 117-138: one iteration of the while loop.
lexIter ==
  /\ pc = "lex"
  /\ pos < Len(content)
  /\ LET next == chooseTok(substr(content, pos))
         type == next.type
         length == next.length
         loc == Location(pos, length, filename)
     IN  /\ IF length = 0
              THEN /\ msgs' = msg(msgs, loc, "InternalError", "Illegal empty token")
                   /\ emitted' = Append(emitted, msgs'[Len(msgs')])
                   /\ toks' = toks
              ELSE IF type = "Error"
              THEN /\ msgs' = msg(msgs, loc, "Error", "Unexpected character")
                   /\ emitted' = Append(emitted, msgs'[Len(msgs')])
                   /\ toks' = toks
              ELSE /\ toks' = Append(toks, [type |-> type, loc |-> loc])
                   /\ UNCHANGED <<msgs, emitted>>
         /\ pos' = pos + length
  /\ UNCHANGED <<ctxVars, step, pc, runner, tree, o_mod, mainVars,
                 ran, shown, exit>>

\* Mutant: the loop is left only when pos is exactly the length of the text.
lexReturn_ExactEnd ==
  /\ pc = "lex"
  /\ pos = Len(content)
  /\ pc' = IF runner = "test" THEN "returned" ELSE "lexed"
  /\ UNCHANGED <<msgs, ctxVars, step, lexVars, runner, tree, o_mod, mainVars,
                 histVars>>

\* Line 139: the loop is over, toks goes back to the caller.
lexReturn ==
  /\ pc = "lex"
  /\ ~(pos < Len(content))
  /\ pc' = IF runner = "test" THEN "returned" ELSE "lexed"
  /\ UNCHANGED <<msgs, ctxVars, step, lexVars, runner, tree, o_mod, mainVars,
                 histVars>>

----------------------------------------------------------------------------
(* A test case of src/test/parser_tests.cc: a fresh log, a Context over    *)
(* one text, one call of lex.                                              *)

\* Bytes of the texts lexed by a test case: the three quotes, white space,
\* the bytes of comments, one byte of each run class and a byte that no
\* rule matches (form feed).
LexAlphabet == {"'", "\"", BackQuote, "\n", " ", "/", "*", "#", "a", "1", "\f"}

Texts(alphabet, n) == UNION {[1..k -> alphabet] : k \in 0..n}

\* The state in which a test case calls lex: a Context over one of the
\* texts, with one of the last steps.
InitTest(texts, lasts) ==
  /\ msgs = <<>>
  /\ content \in texts
  /\ filename = "<filename>"
  /\ step = "Init"
  /\ pos = 0
  /\ toks = <<>>
  /\ pc = "lexStart"
  /\ runner = "test"
  /\ tree = "none"
  /\ o_mod = "none"
  /\ replContent = <<>>
  /\ line = <<>>
  /\ filesRun = 0
  /\ linesRun = 0
  /\ last_step \in lasts
  /\ ran = <<>>
  /\ emitted = <<>>
  /\ shown = <<>>
  /\ exit = "running"

InitLex == InitTest(Texts(LexAlphabet, MaxLen), {"Final"})

NextLex == lexStart \/ lexIter \/ lexReturn

SpecLex == InitLex /\ [][NextLex]_vars

\* Bytes of the texts on which the loop of lex is followed to its end: a
\* quote and a newline, the bytes of comments, a letter and the unmatched
\* byte.
LoopAlphabet == {"\"", "\n", "/", "*", "#", "a", "\f"}

InitLexLoop == InitTest(Texts(LoopAlphabet, MaxLen), {"Final"})

\* lex is one sequential call: as long as it has a step to take, it takes
\* it.
SpecLexFair == InitLexLoop /\ [][NextLex]_vars /\ WF_vars(NextLex)

\* The pass steps in their order; the enumeration is declared outside the
\* files modelled here.
PassSteps == <<"Init", "Lex", "Parse", "Check", "Final">>

\* A test case whose Context is built with any last step (the value main
\* takes from the step option, src/main.cc:67-79) over a text of symbol,
\* white space and unmatched bytes.
InitLexUpTo ==
  InitTest(Texts({"a", " ", "\f"}, MaxLen),
           {PassSteps[i] : i \in 1..Len(PassSteps)})

SpecLexUpTo == InitLexUpTo /\ [][NextLex]_vars

\* Bytes of the texts of the test cases on numbers, operators and the
\* literal tokens: the dot, a digit, the two bytes of -| and |-, a bracket,
\* the separators, a letter and a space.
RunAlphabet == {".", "1", "-", "|", "(", ";", ",", "a", " "}

InitLexRuns == InitTest(Texts(RunAlphabet, MaxLen), {"Final"})

SpecLexRuns == InitLexRuns /\ [][NextLex]_vars

\* Bytes of the texts of the test cases on the literal table: the six
\* brackets, the two separators and the two bytes of -| and |-.
LiteralAlphabet == {"(", ")", "{", "}", "[", "]", ";", ",", "-", "|"}

InitLexLiterals == InitTest(Texts(LiteralAlphabet, MaxLen), {"Final"})

SpecLexLiterals == InitLexLiterals /\ [][NextLex]_vars

MaxCommentLen == 7   \* longest text of the test cases on comments

\* Bytes of the texts of the test cases on comments: the two bytes of the
\* comment marks, a letter and a newline.
CommentAlphabet == {"/", "*", "a", "\n"}

InitLexComments == InitTest(Texts(CommentAlphabet, MaxCommentLen), {"Final"})

SpecLexComments == InitLexComments /\ [][NextLex]_vars

----------------------------------------------------------------------------
(* The stages outside the lexer: the tree builder ast::ast, the extractor  *)
(* parser::parse, check and eval.  Their code is not among the files       *)
(* modelled; each is taken from its description as a step that appends     *)
(* some messages to the log and returns a result or nothing, or throws.    *)

Severities == {"Info", "Warning", "Error", "InternalError"}

\* What such a stage may append: nothing, or one message of one of the
\* severities sevs, at the start of the unit.
StageMsgs(stage, sevs) ==
  {<<>>} \cup {<<Message(Location(0, 0, filename), sev, stage)>> : sev \in sevs}

\* What a throwing stage throws: a std::runtime_error, or anything else.
Throws == {"runtime_error", "other"}

\* The tree builder: no tree and no message when no token is left after
\* dropping the WhiteSpace tokens; otherwise a tree, or an Error with
\* either no tree or a partial one.
AstOutcomes ==
  IF \A i \in 1..Len(toks) : toks[i].type = "WhiteSpace"
    THEN {[tree |-> "none", msgs |-> <<>>]}
    ELSE {o \in [tree : {"tree", "none"}, msgs : StageMsgs("ast", {"Error"})] :
            o.tree = "none" => done(o.msgs)}

\* The extractor: a module, or nothing together with a diagnostic; the
\* batch run always gets a module.
ParseOutcomes ==
  {o \in [o_mod : {"module", "none"},
          msgs : StageMsgs("parse", {"Warning", "Error"})] :
     /\ o.o_mod = "none" => o.msgs # <<>>
     /\ runner = "batch" => o.o_mod = "module"}

\* check: a message of any severity, or none.
CheckOutcomes == StageMsgs("check", Severities)

\* eval: a value or an error; it appends nothing to the log itself.
EvalOutcomes == {"Prim", "PrimError"}

----------------------------------------------------------------------------
(* main, src/main.cc:80-120.                                               *)

\* Bytes of the files and REPL lines handed to the driver: a symbol byte, a
\* white space byte and a byte no lexer rule matches.
UnitAlphabet == {"a", " ", "\f"}

\* The bookkeeping of the history variables at the start of a unit.
StartUnit ==
  /\ ran' = <<>>
  /\ emitted' = <<>>
  /\ shown' = <<>>
  /\ exit' = "running"

\* Lines 81-96: there is one more target; it is read and runCompiler is
\* called on it.
mainNextFile ==
  /\ pc = "main"
  /\ runner = "batch"
  /\ filesRun < MaxFiles
  /\ \E text \in Texts(UnitAlphabet, MaxUnitLen) : content' = text
  /\ filename' = <<"target", filesRun>>
  /\ filesRun' = filesRun + 1
  /\ step' = "Init"
  /\ pc' = "getTree"
  /\ StartUnit
  /\ UNCHANGED <<msgs, lexVars, runner, tree, o_mod, replContent, line,
                 linesRun, last_step>>

\* Lines 99-111: the targets are through and the REPL was asked for; the
\* next line is read and runCompilerInteractive is called on the
\* accumulated content followed by it.
mainReadLine ==
  /\ pc = "main"
  /\ linesRun < MaxLines
  /\ \E text \in Texts(UnitAlphabet, MaxUnitLen) :
       /\ line' = text
       /\ content' = replContent \o <<"\n">> \o text
  /\ filename' = "stdin"
  /\ linesRun' = linesRun + 1
  /\ step' = "Init"
  /\ runner' = "repl"
  /\ pc' = "getTree"
  /\ StartUnit
  /\ UNCHANGED <<msgs, lexVars, tree, o_mod, replContent, filesRun,
                 last_step>>

\* Lines 99, 105-107, 120: the targets are through and no REPL was asked
\* for, or the input ends or is ":q": main returns.
mainReturn ==
  /\ pc = "main"
  /\ pc' = "exited"
  /\ UNCHANGED <<msgs, ctxVars, step, lexVars, runner, tree, o_mod, mainVars,
                 histVars>>

\* The unit is over on path how, leaving the log as log: the Context, the
\* tokens, the tree and the module go out of scope.  Back in main, the REPL
\* keeps the line when the log is empty (lines 112-116).
EndUnit(how, log) ==
  /\ pc' = "main"
  /\ exit' = how
  /\ replContent' = IF runner = "repl" /\ log = <<>>
                      THEN replContent \o <<"\n">> \o line
                      ELSE replContent
  /\ content' = <<>>
  /\ filename' = ""
  /\ step' = "Init"
  /\ pos' = 0
  /\ toks' = <<>>
  /\ tree' = "none"
  /\ o_mod' = "none"
  /\ line' = <<>>
  /\ UNCHANGED <<runner, filesRun, linesRun, last_step>>

\* A stage threw while the unit was running: runCompiler and
\* runCompilerInteractive catch a std::runtime_error (compile.cc:73-75,
\* 106-108) and return; anything else leaves main.
Thrown(what, stage) ==
  /\ ran' = Append(ran, stage)
  /\ IF what = "runtime_error"
       THEN EndUnit("caught", msgs)
       ELSE /\ pc' = "terminated"
            /\ exit' = "terminated"
            /\ UNCHANGED <<ctxVars, step, lexVars, runner, tree, o_mod,
                           mainVars>>
  /\ UNCHANGED <<msgs, emitted, shown>>

----------------------------------------------------------------------------
(* getTree, src/src/compile.cc:7-24.                                       *)

\* Lines 8-10: the log already holds a fatal message, no stage is run.
getTreeDone ==
  /\ pc = "getTree"
  /\ done(msgs)
  /\ tree' = "none"
  /\ pc' = "gotTree"
  /\ UNCHANGED <<msgs, ctxVars, step, lexVars, runner, o_mod, mainVars,
                 histVars>>

\* Line 12: lex is called.
getTreeLex ==
  /\ pc = "getTree"
  /\ ~done(msgs)
  /\ ran' = Append(ran, "lex")
  /\ pc' = "lexStart"
  /\ UNCHANGED <<msgs, ctxVars, step, lexVars, runner, tree, o_mod, mainVars,
                 emitted, shown, exit>>

\* Lines 13-17: lex left a fatal message; the tokens are shown, no tree.
getTreeLexDone ==
  /\ pc = "lexed"
  /\ done(msgs)
  /\ tree' = "none"
  /\ pc' = "gotTree"
  /\ UNCHANGED <<msgs, ctxVars, step, lexVars, runner, o_mod, mainVars,
                 histVars>>

\* Line 19: the tree builder runs.
getTreeAst ==
  /\ pc = "lexed"
  /\ ~done(msgs)
  /\ \E o \in AstOutcomes :
       /\ tree' = o.tree
       /\ msgs' = msgs \o o.msgs
       /\ emitted' = emitted \o o.msgs
  /\ ran' = Append(ran, "ast")
  /\ pc' = "built"
  /\ UNCHANGED <<ctxVars, step, lexVars, runner, o_mod, mainVars, shown,
                 exit>>

\* Lines 20-23: when the tree builder left a fatal message the tree is
\* shown through *tree; with no tree that is undefined behaviour, after
\* which the program either goes on or dies.  The optional is returned.
getTreeReturn ==
  /\ pc = "built"
  /\ IF done(msgs) /\ tree = "none"
       THEN \E ub \in {"goes on", "dies"} :
              /\ pc' = IF ub = "dies" THEN "terminated" ELSE "gotTree"
              /\ exit' = IF ub = "dies" THEN "terminated" ELSE exit
       ELSE pc' = "gotTree" /\ exit' = exit
  /\ UNCHANGED <<msgs, ctxVars, step, lexVars, runner, tree, o_mod, mainVars,
                 ran, emitted, shown>>

getTreeAstThrows ==
  /\ pc = "lexed"
  /\ ~done(msgs)
  /\ \E what \in Throws : Thrown(what, "ast")

----------------------------------------------------------------------------
(* finish, src/src/compile.cc:26-31: every message of the log is shown,    *)
(* then the log is cleared.                                                *)

finish ==
  /\ shown' = shown \o msgs
  /\ msgs' = <<>>

----------------------------------------------------------------------------
(* runCompiler, src/src/compile.cc:79-109, and runCompilerInteractive,     *)
(* src/src/compile.cc:33-77, after getTree has returned.                   *)

\* Lines 36-38, 82-84: no tree, or a fatal message: the unit is dropped.
runNoTree ==
  /\ pc = "gotTree"
  /\ (tree = "none" \/ done(msgs))
  /\ EndUnit("not run", msgs)
  /\ UNCHANGED <<msgs, ran, emitted, shown>>

\* Lines 40-43, 86-87: the extractor runs on the tree.
runParse ==
  /\ pc = "gotTree"
  /\ ~(tree = "none" \/ done(msgs))
  /\ \E o \in ParseOutcomes :
       /\ o_mod' = o.o_mod
       /\ msgs' = msgs \o o.msgs
       /\ emitted' = emitted \o o.msgs
  /\ ran' = Append(ran, "parse")
  /\ pc' = "parsed"
  /\ UNCHANGED <<ctxVars, step, lexVars, runner, tree, mainVars, shown, exit>>

runParseThrows ==
  /\ pc = "gotTree"
  /\ ~(tree = "none" \/ done(msgs))
  /\ \E what \in Throws : Thrown(what, "parse")

\* Lines 44-46 (runCompilerInteractive only): the extractor gave no module.
runParseFailed ==
  /\ pc = "parsed"
  /\ o_mod = "none"
  /\ EndUnit("parse failed", msgs)
  /\ UNCHANGED <<msgs, ran, emitted, shown>>

\* Lines 47-53, 88-96: the extractor left a fatal message.  The batch run
\* shows the symbols; the interactive run shows the module and every
\* message of the log.  The log is left as it is.
runParseDone ==
  /\ pc = "parsed"
  /\ o_mod # "none"
  /\ done(msgs)
  /\ shown' = IF runner = "repl" THEN shown \o msgs ELSE shown
  /\ EndUnit("parse error", msgs)
  /\ UNCHANGED <<msgs, ran, emitted>>

\* Mutant: check runs on the module whatever done() says.
runCheck_Unguarded ==
  /\ pc = "parsed"
  /\ o_mod # "none"
  /\ \E m \in CheckOutcomes :
       /\ msgs' = msgs \o m
       /\ emitted' = emitted \o m
  /\ ran' = Append(ran, "check")
  /\ pc' = "checked"
  /\ UNCHANGED <<ctxVars, step, lexVars, runner, tree, o_mod, mainVars,
                 shown, exit>>

\* Lines 54-55, 98: check runs on the module.
runCheck ==
  /\ pc = "parsed"
  /\ o_mod # "none"
  /\ ~done(msgs)
  /\ \E m \in CheckOutcomes :
       /\ msgs' = msgs \o m
       /\ emitted' = emitted \o m
  /\ ran' = Append(ran, "check")
  /\ pc' = "checked"
  /\ UNCHANGED <<ctxVars, step, lexVars, runner, tree, o_mod, mainVars,
                 shown, exit>>

runCheckThrows ==
  /\ pc = "parsed"
  /\ o_mod # "none"
  /\ ~done(msgs)
  /\ \E what \in Throws : Thrown(what, "check")

\* Lines 56-59, 99-102: check left a fatal message; the checked module is
\* shown.
runCheckDone ==
  /\ pc = "checked"
  /\ done(msgs)
  /\ EndUnit("check error", msgs)
  /\ UNCHANGED <<msgs, ran, emitted, shown>>

\* Line 105 (runCompiler): the unit is through, finish is called.
runFinish ==
  /\ pc = "checked"
  /\ ~done(msgs)
  /\ runner = "batch"
  /\ finish
  /\ EndUnit("finished", <<>>)
  /\ UNCHANGED <<ran, emitted>>

\* Lines 61-67 (runCompilerInteractive): eval runs; an error result is
\* logged as a Warning at the location of the module.
runEval ==
  /\ pc = "checked"
  /\ ~done(msgs)
  /\ runner = "repl"
  /\ \E res \in EvalOutcomes :
       LET new == IF res = "PrimError"
                    THEN msg(<<>>, Location(0, Len(content), filename),
                             "Warning", "PrimError")
                    ELSE <<>>
       IN  /\ msgs' = msgs \o new
           /\ emitted' = emitted \o new
  /\ ran' = Append(ran, "eval")
  /\ pc' = "evaled"
  /\ UNCHANGED <<ctxVars, step, lexVars, runner, tree, o_mod, mainVars,
                 shown, exit>>

runEvalThrows ==
  /\ pc = "checked"
  /\ ~done(msgs)
  /\ runner = "repl"
  /\ \E what \in Throws : Thrown(what, "eval")

\* Mutant: finish is called only when the log is empty.
runEvalReturn_OnlyIfEmpty ==
  /\ pc = "evaled"
  /\ IF msgs = <<>>
       THEN finish /\ EndUnit("finished", <<>>)
       ELSE UNCHANGED <<msgs, shown>> /\ EndUnit("not finished", msgs)
  /\ UNCHANGED <<ran, emitted>>

\* Lines 69-72 (runCompilerInteractive): finish is called unless eval left
\* a fatal message; the result is returned.
runEvalReturn ==
  /\ pc = "evaled"
  /\ IF ~done(msgs)
       THEN finish /\ EndUnit("finished", <<>>)
       ELSE UNCHANGED <<msgs, shown>> /\ EndUnit("not finished", msgs)
  /\ UNCHANGED <<ran, emitted>>

----------------------------------------------------------------------------
(* The driver: main over a batch of files, then over the lines of the      *)
(* REPL when it was asked for.                                             *)

Init ==
  /\ msgs = <<>>
  /\ content = <<>>
  /\ filename = ""
  /\ step = "Init"
  /\ pos = 0
  /\ toks = <<>>
  /\ pc = "main"
  /\ runner = "batch"
  /\ tree = "none"
  /\ o_mod = "none"
  /\ replContent = <<>>
  /\ line = <<>>
  /\ filesRun = 0
  /\ linesRun = 0
  /\ last_step = "Final"
  /\ ran = <<>>
  /\ emitted = <<>>
  /\ shown = <<>>
  /\ exit = "none"

Next ==
  \/ mainNextFile \/ mainReadLine \/ mainReturn
  \/ getTreeDone \/ getTreeLex
  \/ lexStart \/ lexIter \/ lexReturn
  \/ getTreeLexDone \/ getTreeAst \/ getTreeAstThrows \/ getTreeReturn
  \/ runNoTree
  \/ runParse \/ runParseThrows \/ runParseFailed \/ runParseDone
  \/ runCheck \/ runCheckThrows \/ runCheckDone
  \/ runFinish
  \/ runEval \/ runEvalThrows \/ runEvalReturn

Spec == Init /\ [][Next]_vars

----------------------------------------------------------------------------
(* The tree builder ast::ast and the extractor parser::parseValue.  Their  *)
(* code is not among the files modelled; they are taken from their         *)
(* description and from the trees and values that the test cases of        *)
(* src/test/parser_tests.cc require.  An optional is a sequence of no or   *)
(* one element.                                                            *)

\* Tree<Token>: a token and the children in order.
Tree(value, children) == [value |-> value, children |-> children]

\* The tokens that take part in the structure: the WhiteSpace tokens are
\* dropped.
dropWhiteSpace(tokens) == SelectSeq(tokens, LAMBDA t : t.type # "WhiteSpace")

\* The type of the i-th token, "end" past the last one.
TypeAt(ts, i) == IF i <= Len(ts) THEN ts[i].type ELSE "end"

\* The outcome of a parsing step: what was built and the index of the next
\* token, or a failure at a token.
Parsed(out, next) == [ok |-> TRUE, out |-> out, next |-> next]
Failed(at) == [ok |-> FALSE, out |-> <<>>, next |-> at]

RECURSIVE parseTerm(_, _)
RECURSIVE parseList(_, _, _)
RECURSIVE parseOperators(_, _, _)

\* An expression: a term, then the operator applications that follow it.
parseExpr(ts, i) ==
  LET t == parseTerm(ts, i) IN
  IF t.ok THEN parseOperators(ts, t.out, t.next) ELSE t

\* Mutant: the operators are folded from the right: the right child of an
\* operator is the whole expression after it.
parseOperators_FromRight(ts, left, i) ==
  IF TypeAt(ts, i) = "Operator"
    THEN LET right == parseExpr(ts, i + 1) IN
         IF right.ok
           THEN Parsed(Tree(ts[i], <<left, right.out>>), right.next)
           ELSE right
    ELSE Parsed(left, i)

\* Infix operators: the tree built so far is the left child of the next
\* operator, the term after the operator its right child.
parseOperators(ts, left, i) ==
  IF TypeAt(ts, i) = "Operator"
    THEN LET right == parseTerm(ts, i + 1) IN
         IF right.ok
           THEN parseOperators(ts, Tree(ts[i], <<left, right.out>>), right.next)
           ELSE right
    ELSE Parsed(left, i)

\* Mutant: each element is put in front of those before it.
parseList_Reversed(ts, i, elems) ==
  IF elems = <<>> /\ TypeAt(ts, i) = "CloseParen"
    THEN Parsed(<<>>, i + 1)
    ELSE LET e == parseExpr(ts, i) IN
         IF ~e.ok THEN e
         ELSE IF TypeAt(ts, e.next) = "Comma"
           THEN parseList(ts, e.next + 1, <<e.out>> \o elems)
         ELSE IF TypeAt(ts, e.next) = "CloseParen"
           THEN Parsed(<<e.out>> \o elems, e.next + 1)
         ELSE Failed(e.next)

\* The elements of a parenthesized list from token i on, elems being those
\* before i: the elements are separated by commas and closed by the
\* CloseParen.
parseList(ts, i, elems) ==
  IF elems = <<>> /\ TypeAt(ts, i) = "CloseParen"
    THEN Parsed(<<>>, i + 1)
    ELSE LET e == parseExpr(ts, i) IN
         IF ~e.ok THEN e
         ELSE IF TypeAt(ts, e.next) = "Comma"
           THEN parseList(ts, e.next + 1, Append(elems, e.out))
         ELSE IF TypeAt(ts, e.next) = "CloseParen"
           THEN Parsed(Append(elems, e.out), e.next + 1)
         ELSE Failed(e.next)

\* Mutant: parentheses around one element are dropped by the tree builder.
parseTerm_Unwrapped(ts, i) ==
  IF TypeAt(ts, i) \in {"NumberLiteral", "StringLiteral"}
    THEN Parsed(Tree(ts[i], <<>>), i + 1)
  ELSE IF TypeAt(ts, i) = "Symbol" /\ TypeAt(ts, i + 1) = "OpenParen"
    THEN LET args == parseList(ts, i + 2, <<>>) IN
         IF args.ok THEN Parsed(Tree(ts[i], args.out), args.next) ELSE args
  ELSE IF TypeAt(ts, i) = "Symbol"
    THEN Parsed(Tree(ts[i], <<>>), i + 1)
  ELSE IF TypeAt(ts, i) = "OpenParen"
    THEN LET inner == parseList(ts, i + 1, <<>>) IN
         IF inner.ok /\ Len(inner.out) = 1 THEN Parsed(inner.out[1], inner.next)
         ELSE IF inner.ok THEN Parsed(Tree(ts[i], inner.out), inner.next)
         ELSE inner
  ELSE Failed(i)

\* A term: an atom is a leaf; a Symbol followed at once by a parenthesized
\* list is a node of the Symbol over the elements; a parenthesized list
\* that follows no Symbol is a node of the OpenParen token over the elements.
parseTerm(ts, i) ==
  IF TypeAt(ts, i) \in {"NumberLiteral", "StringLiteral"}
    THEN Parsed(Tree(ts[i], <<>>), i + 1)
  ELSE IF TypeAt(ts, i) = "Symbol" /\ TypeAt(ts, i + 1) = "OpenParen"
    THEN LET args == parseList(ts, i + 2, <<>>) IN
         IF args.ok THEN Parsed(Tree(ts[i], args.out), args.next) ELSE args
  ELSE IF TypeAt(ts, i) = "Symbol"
    THEN Parsed(Tree(ts[i], <<>>), i + 1)
  ELSE IF TypeAt(ts, i) = "OpenParen"
    THEN LET inner == parseList(ts, i + 1, <<>>) IN
         IF inner.ok THEN Parsed(Tree(ts[i], inner.out), inner.next) ELSE inner
  ELSE Failed(i)

\* The text a location covers.
getString(loc, text) == SubSeq(text, loc.start + 1, loc.start + loc.length)

\* The token at index i of ts is the Operator written "=".
isDeclaration(ts, i, text) ==
  /\ TypeAt(ts, i) = "Operator"
  /\ getString(ts[i].loc, text) = <<"=">>

\* The node of the "=" at the token after the head, over the head and the
\* value, when the value is an expression; the failure of the value
\* otherwise.
parseDeclaration(ts, head, value) ==
  IF value.ok
    THEN Parsed(Tree(ts[head.next], <<head.out, value.out>>), value.next)
    ELSE value

\* The head has been read: the Operator "=" and the value expression
\* follow.
parseDefinitionValue(ts, text, head) ==
  IF head.ok /\ isDeclaration(ts, head.next, text)
    THEN parseDeclaration(ts, head, parseExpr(ts, head.next + 1))
    ELSE Failed(1)

\* A top-level definition: a Symbol, with or without a parenthesized list,
\* then the Operator "=" and the value expression; the tree is the node of
\* the "=" over the head and the value.
parseDefinitionHead(ts, text) ==
  IF TypeAt(ts, 1) = "Symbol"
    THEN parseDefinitionValue(ts, text, parseTerm(ts, 1))
    ELSE Failed(1)

\* The outcome d of the definition rule when it applies, that of the
\* expression rule otherwise.
orExpression(ts, d) == IF d.ok THEN d ELSE parseExpr(ts, 1)

\* The top-level unit: a definition, or else an expression.
parseModule(ts, text) == orExpression(ts, parseDefinitionHead(ts, text))

\* The tree of the outcome e when the rule took every token; otherwise an
\* Error at the offending token, or at the end of the text, and no tree.
astOutcome(ts, text, file, e) ==
  IF e.ok /\ e.next = Len(ts) + 1
    THEN [tree |-> <<e.out>>, msgs |-> <<>>]
    ELSE [tree |-> <<>>,
          msgs |-> <<Message(IF e.next <= Len(ts) THEN ts[e.next].loc
                             ELSE Location(Len(text), 0, file),
                             "Error", "ast")>>]

\* ast::ast on the tokens left after dropping the WhiteSpace tokens: no
\* tree and no message when none is left.
astTokens(ts, text, file) ==
  IF ts = <<>> THEN [tree |-> <<>>, msgs |-> <<>>]
  ELSE astOutcome(ts, text, file, parseModule(ts, text))

\* Mutant: a sequence without a token other than white space is an error.
ast_EmptyIsError(tokens, text, file) ==
  astOutcome(dropWhiteSpace(tokens), text, file,
             parseModule(dropWhiteSpace(tokens), text))

\* ast::ast: no tree and no message when no token is left; the tree of the
\* tokens when they are one definition or one expression; otherwise an
\* Error at the offending token and no tree.
ast(tokens, text, file) == astTokens(dropWhiteSpace(tokens), text, file)

\* The decimal digits of a natural number.
RECURSIVE to_string(_)
to_string(n) ==
  LET digit == <<"0","1","2","3","4","5","6","7","8","9">>[(n % 10) + 1] IN
  IF n < 10 THEN <<digit>> ELSE Append(to_string(n \div 10), digit)

\* The name of the argument at child index i.
argName(i) == <<"#">> \o to_string(i)

\* parser::parseValue: a leaf is a Value with the token's text as name and
\* no args; a node is a Value named by its head token whose args are the
\* extracted children under the names #0, #1, ...; parentheses around one
\* element stand for that element.
RECURSIVE parseValue(_, _)

\* Mutant: the arguments are numbered from 1.
parseValue_FromOne(node, text) ==
  IF node.value.type = "OpenParen" /\ Len(node.children) = 1
    THEN parseValue(node.children[1], text)
    ELSE [name |-> getString(node.value.loc, text),
          args |-> [i \in 1..Len(node.children) |->
                      [name |-> argName(i),
                       value |-> parseValue(node.children[i], text)]]]

parseValue(node, text) ==
  IF node.value.type = "OpenParen" /\ Len(node.children) = 1
    THEN parseValue(node.children[1], text)
    ELSE [name |-> getString(node.value.loc, text),
          args |-> [i \in 1..Len(node.children) |->
                      [name |-> argName(i - 1),
                       value |-> parseValue(node.children[i], text)]]]

\* A test case goes on from the tokens of lex to the tree builder.
testAst ==
  /\ pc = "returned"
  /\ LET o == ast(toks, content, filename) IN
       /\ tree' = o.tree
       /\ msgs' = msgs \o o.msgs
       /\ emitted' = emitted \o o.msgs
  /\ pc' = "astReturned"
  /\ UNCHANGED <<ctxVars, step, lexVars, runner, o_mod, mainVars, ran, shown,
                 exit>>

\* The test case has a tree and calls the extractor on it.
testParseValue ==
  /\ pc = "astReturned"
  /\ tree # <<>>
  /\ o_mod' = <<parseValue(tree[1], content)>>
  /\ pc' = "parseValueReturned"
  /\ UNCHANGED <<msgs, ctxVars, step, lexVars, runner, tree, mainVars,
                 histVars>>

\* The texts of the test cases on expressions: the expressions of exactly
\* n bytes written with a symbol, a number, an operator, parentheses and
\* commas.  A term is an atom, a parenthesized list or a call; an
\* expression is a chain of terms joined by the operator; a list is empty
\* or holds expressions separated by commas.
RECURSIVE Terms(_)
RECURSIVE Exprs(_)
RECURSIVE Elems(_)

Lists(n) == (IF n = 0 THEN {<<>>} ELSE {}) \cup Elems(n)

Terms(n) ==
  (IF n = 1 THEN {<<"a">>, <<"1">>} ELSE {})
  \cup (IF n >= 2 THEN {<<"(">> \o l \o <<")">> : l \in Lists(n - 2)} ELSE {})
  \cup (IF n >= 3 THEN {<<"a", "(">> \o l \o <<")">> : l \in Lists(n - 3)}
                  ELSE {})

Exprs(n) ==
  Terms(n) \cup UNION {{e \o <<"+">> \o t : e \in Exprs(i), t \in Terms(n-i-1)} :
                         i \in 1..n-2}

Elems(n) ==
  Exprs(n) \cup UNION {{e \o <<",">> \o l : e \in Exprs(i), l \in Elems(n-i-1)} :
                         i \in 1..n-2}

MaxExprLen == 9    \* longest expression given to the tree builder

\* Bytes of the other texts given to the tree builder: those of the
\* expressions and a space.
TreeAlphabet == {"a", "1", "+", "(", ")", ",", " "}

\* Bytes of the texts of white space and line comments only.
BlankAlphabet == {" ", "#", "\n"}

InitTree ==
  InitTest(UNION {Exprs(n) : n \in 1..MaxExprLen}
             \cup Texts(TreeAlphabet, MaxLen)
             \cup Texts(BlankAlphabet, MaxLen),
           {"Final"})

NextTree == lexStart \/ lexIter \/ lexReturn \/ testAst \/ testParseValue

SpecTree == InitTree /\ [][NextTree]_vars

\* Mutant: the parameters of the head are extracted like the arguments of
\* a call.
parseDefinition_AsCall(node, text) ==
  LET head == node.children[1] IN
  IF /\ node.value.type = "Operator"
     /\ getString(node.value.loc, text) = <<"=">>
     /\ Len(node.children) = 2
     /\ head.value.type = "Symbol"
     /\ \A i \in 1..Len(head.children) :
          /\ head.children[i].value.type = "Symbol"
          /\ head.children[i].children = <<>>
    THEN [def |-> <<[name |-> getString(head.value.loc, text),
                     args |-> parseValue(head, text).args,
                     value |-> <<parseValue(node.children[2], text)>>]>>,
          msgs |-> <<>>]
    ELSE [def |-> <<>>,
          msgs |-> <<Message(node.value.loc, "Error", "parse")>>]

\* parser::parseDefinition: the node of "=" over a head and a value is a
\* Definition named by the head Symbol, whose args are the parameters of
\* the head, each named by its identifier and without a value, and whose
\* value is the Value extracted from the right-hand side; any other tree
\* yields nothing and a diagnostic.
parseDefinition(node, text) ==
  LET head == node.children[1] IN
  IF /\ node.value.type = "Operator"
     /\ getString(node.value.loc, text) = <<"=">>
     /\ Len(node.children) = 2
     /\ head.value.type = "Symbol"
     /\ \A i \in 1..Len(head.children) :
          /\ head.children[i].value.type = "Symbol"
          /\ head.children[i].children = <<>>
    THEN [def |-> <<[name |-> getString(head.value.loc, text),
                     args |-> [i \in 1..Len(head.children) |->
                                 [name |-> getString(head.children[i].value.loc,
                                                     text),
                                  value |-> <<>>]],
                     value |-> <<parseValue(node.children[2], text)>>]>>,
          msgs |-> <<>>]
    ELSE [def |-> <<>>,
          msgs |-> <<Message(node.value.loc, "Error", "parse")>>]

\* The test case has a tree and calls parseDefinition on it.
testParseDefinition ==
  /\ pc = "astReturned"
  /\ tree # <<>>
  /\ LET o == parseDefinition(tree[1], content) IN
       /\ o_mod' = o.def
       /\ msgs' = msgs \o o.msgs
       /\ emitted' = emitted \o o.msgs
  /\ pc' = "parseDefinitionReturned"
  /\ UNCHANGED <<ctxVars, step, lexVars, runner, tree, mainVars, ran, shown,
                 exit>>

MaxParams == 2     \* most parameters of a definition head
MaxValueLen == 6   \* longest value expression of a definition

\* The identifiers ids separated by commas.
RECURSIVE commaSeparated(_)
commaSeparated(ids) ==
  IF Len(ids) <= 1 THEN ids
  ELSE <<Head(ids), ",">> \o commaSeparated(Tail(ids))

\* The heads of the definitions of the test cases: the name alone, or the
\* name and a parenthesized list of parameters.
Heads ==
  {<<"a">>} \cup
  {<<"a", "(">> \o commaSeparated(ids) \o <<")">> :
     ids \in UNION {[1..k -> {"a", "b"}] : k \in 0..MaxParams}}

\* The values of the definitions of the test cases.
ValueTexts == UNION {Exprs(n) : n \in 1..MaxValueLen}

\* Bytes of the other texts given to parseDefinition.
DefAlphabet == {"a", "b", "1", "=", "(", ")", ","}

\* The texts of the test cases on definitions: a head, "=" with or without
\* spaces around it, and a value; and, for what is not a definition, the
\* values alone and the short texts over the bytes of definitions.
InitDef ==
  InitTest({h \o eq \o v : h \in Heads, eq \in {<<"=">>, <<" ", "=", " ">>},
                           v \in ValueTexts}
             \cup ValueTexts \cup Texts(DefAlphabet, MaxLen),
           {"Final"})

NextDef == lexStart \/ lexIter \/ lexReturn \/ testAst \/ testParseDefinition

SpecDef == InitDef /\ [][NextDef]_vars

----------------------------------------------------------------------------
(* Properties of lex.                                                      *)

\* The byte at the scan position, while lex is about to run an iteration.
Scanning == pc = "lex" /\ pos < Len(content)

cur == At(content, pos)

\* C1: the tokens lex returns, in order, partition the text: the first one
\* starts at 0, each next one starts where the previous one ends, the last
\* one ends at the length of the text.
C1_TokensPartitionText ==
  pc = "returned" =>
    /\ (toks = <<>> => Len(content) = 0)
    /\ (toks # <<>> =>
          /\ toks[1].loc.start = 0
          /\ \A i \in 2..Len(toks) :
               toks[i].loc.start = toks[i-1].loc.start + toks[i-1].loc.length
          /\ toks[Len(toks)].loc.start + toks[Len(toks)].loc.length
               = Len(content))

\* C2: no token lex produces ends past the end of the source text.
C2_TokenInBounds ==
  \A i \in 1..Len(toks) :
    toks[i].loc.start + toks[i].loc.length <= Len(content)

\* No rule of chooseTok matches a text that starts with the byte c.
NoRuleMatches(c) ==
  /\ \A i \in 1..Len(matchToken) : matchToken[i].s[1] # c
  /\ c \notin quotes \cup whiteSpace \cup operatorChar \cup numberChar
                     \cup symbolChar

\* C3: at a byte no rule matches, one iteration of lex moves on by one byte,
\* appends an Error token of length 1 at that byte to the tokens, and appends
\* the one message Error "Unexpected character" at that location.
C3_ErrorTokenAndMessage ==
  [][ (Scanning /\ NoRuleMatches(cur)) =>
        /\ pos' = pos + 1
        /\ toks' = Append(toks, [type |-> "Error",
                                 loc |-> Location(pos, 1, filename)])
        /\ msgs' = Append(msgs, Message(Location(pos, 1, filename), "Error",
                                        "Unexpected character")) ]_vars

\* The offset of the first newline after the opening quote at the scan
\* position when no matching delimiter comes before it; -1 when there is no
\* such newline.
NewlineBeforeClose ==
  IF \E n \in pos+1..Len(content)-1 :
       /\ At(content, n) = "\n"
       /\ \A k \in pos+1..n-1 : At(content, k) \notin {"\n", cur}
    THEN CHOOSE n \in pos+1..Len(content)-1 :
           /\ At(content, n) = "\n"
           /\ \A k \in pos+1..n-1 : At(content, k) \notin {"\n", cur}
    ELSE -1

UnterminatedNewline ==
  "Unterminated string literal (or maybe you wanted a \"multiline string\"?)"

UnterminatedEndOfFile == "Unterminated string literal, found end of file."

\* C4: a literal opened by ' or by the back quote that meets a newline before
\* its closing delimiter yields a StringLiteral token that ends at that
\* newline, and exactly one Warning "Unterminated string literal (or maybe
\* you wanted a "multiline string"?)" is appended to the log.
C4_NewlineEndsLiteral ==
  [][ (Scanning /\ cur \in {"'", BackQuote} /\ NewlineBeforeClose # -1) =>
        /\ Len(toks') = Len(toks) + 1
        /\ toks'[Len(toks')].type = "StringLiteral"
        /\ toks'[Len(toks')].loc.start = pos
        /\ pos + toks'[Len(toks')].loc.length <= NewlineBeforeClose + 1
        /\ Len(msgs') = Len(msgs) + 1
        /\ SubSeq(msgs', 1, Len(msgs)) = msgs
        /\ msgs'[Len(msgs')].type = "Warning"
        /\ msgs'[Len(msgs')].msg = UnterminatedNewline ]_vars

\* The literal opened at the scan position runs into the end of the input:
\* no matching delimiter follows, and for ' and the back quote no newline
\* either.
LiteralHitsEndOfInput ==
  /\ Scanning
  /\ cur \in quotes
  /\ \A k \in pos+1..Len(content)-1 :
       /\ At(content, k) # cur
       /\ (cur # "\"" => At(content, k) # "\n")

\* C5: a literal that runs into the end of the input appends the message
\* "Unterminated string literal, found end of file." and still yields a
\* StringLiteral token for the span scanned.
C5_EndOfFileInLiteral ==
  [][ LiteralHitsEndOfInput =>
        /\ toks' = Append(toks, [type |-> "StringLiteral",
                     loc |-> Location(pos, Len(content) - pos, filename)])
        /\ Len(msgs') = Len(msgs) + 1
        /\ SubSeq(msgs', 1, Len(msgs)) = msgs
        /\ msgs'[Len(msgs')].msg = UnterminatedEndOfFile ]_vars

\* The literal opened at the scan position is closed at offset j: j holds
\* the first matching delimiter, and for ' and the back quote no newline
\* comes before it.
ClosedAt(j) ==
  /\ Scanning
  /\ cur \in quotes
  /\ j \in pos+1..Len(content)-1
  /\ At(content, j) = cur
  /\ \A k \in pos+1..j-1 :
       /\ At(content, k) # cur
       /\ (cur # "\"" => At(content, k) # "\n")

\* C6: a literal closed by its matching delimiter yields exactly one
\* StringLiteral token, from the opening through the closing delimiter, and
\* no message; a double-quoted literal also when it contains newlines.
C6_ClosedLiteral ==
  [][ \A j \in 1..Len(content) :
        ClosedAt(j) =>
          /\ toks' = Append(toks, [type |-> "StringLiteral",
                       loc |-> Location(pos, j - pos + 1, filename)])
          /\ pos' = j + 1
          /\ msgs' = msgs ]_vars

\* A double-quoted literal with a newline inside has been lexed as one token
\* and the log is empty.
C6_Witness ==
  /\ pc = "returned"
  /\ msgs = <<>>
  /\ \E i \in 1..Len(toks) :
       LET b == toks[i].loc.start
           e == toks[i].loc.start + toks[i].loc.length - 1
       IN  /\ toks[i].type = "StringLiteral"
           /\ b < e
           /\ At(content, b) = "\""
           /\ At(content, e) = "\""
           /\ \E k \in b+1..e-1 : At(content, k) = "\n"

----------------------------------------------------------------------------
(* Properties of the driver.                                               *)

\* The log holds nothing but Info and Warning messages.
OnlyInfoWarning(log) ==
  \A i \in 1..Len(log) : log[i].type \in {"Info", "Warning"}

\* This step invokes the stage.
Invokes(stage) == ran' = Append(ran, stage)

\* C7: done() is true exactly when the log holds an Error or InternalError
\* message: at every place where the driver asks done(), it goes on to the
\* next stage (or to finish) exactly when the log holds only Info and
\* Warning messages.
C7_DoneIffFatal ==
  [][ /\ pc = "getTree" => (Invokes("lex") <=> OnlyInfoWarning(msgs))
      /\ pc = "lexed" => (Invokes("ast") <=> OnlyInfoWarning(msgs))
      /\ (pc = "gotTree" /\ tree # "none") =>
           (Invokes("parse") <=> OnlyInfoWarning(msgs))
      /\ (pc = "parsed" /\ o_mod # "none") =>
           (Invokes("check") <=> OnlyInfoWarning(msgs))
      /\ (pc = "checked" /\ runner = "batch") =>
           (exit' = "finished" <=> OnlyInfoWarning(msgs))
      /\ (pc = "checked" /\ runner = "repl") =>
           (Invokes("eval") <=> OnlyInfoWarning(msgs))
      /\ pc = "evaled" => (exit' = "finished" <=> OnlyInfoWarning(msgs))
    ]_vars

\* A unit ran to finish with a Warning in the log: done() was false at
\* every stage after the Warning, and finish showed it.
C7_Witness ==
  /\ pc = "main"
  /\ exit = "finished"
  /\ \E i \in 1..Len(shown) : shown[i].type = "Warning"

\* C8: within a unit no stage is invoked while done() is true: not lex when
\* the unit starts with done() true, and no later stage once a stage has
\* left done() true; check is invoked only with done() false.
C8_NoStageOnceDone ==
  [][ /\ done(msgs) => Len(ran') <= Len(ran)
      /\ Invokes("check") => ~done(msgs) ]_vars

\* A REPL unit stopped after check left a fatal message: eval was not run.
C8_Witness ==
  /\ pc = "main"
  /\ runner = "repl"
  /\ exit = "check error"
  /\ done(msgs)
  /\ ran = <<"lex", "ast", "parse", "check">>

\* C9: when the pipeline of a unit starts, the log is empty and done() is
\* false, whatever happened in the units before.
C9_LogEmptyAtUnitStart ==
  pc = "getTree" => (msgs = <<>> /\ ~done(msgs))

\* C10: on every return of runCompiler and runCompilerInteractive, the
\* messages appended during the unit have been shown once each, in the
\* order of their emission.
C10_ShownOnceInOrder ==
  (/\ pc = "main"
   /\ exit \in {"not run", "parse failed", "parse error", "check error",
                "finished", "not finished"})
    => shown = emitted

\* A stage invoked by this step throws: the unit ends within the step.
Crashes == \E stage \in {"ast", "parse", "check", "eval"} :
             Invokes(stage) /\ exit' # exit

\* C11: when a stage throws while a unit is processed, whatever it throws,
\* the driver catches it and is back in main, where the remaining files and
\* REPL lines are still processed.
C11_CrashCaught ==
  [][ Crashes => (pc' = "main" /\ exit' = "caught") ]_vars

\* The position of a pass step in the order of the steps.
StepRank(st) == CHOOSE i \in 1..Len(PassSteps) : PassSteps[i] = st

\* C12: when the step Lex exceeds the last step of the context (the last
\* step is Init), lex returns no token and appends no message, whatever
\* the text.
C12_NoWorkPastLastStep ==
  (pc = "returned" /\ StepRank("Lex") > StepRank(last_step)) =>
    (toks = <<>> /\ msgs = <<>>)

\* C13: lex merges each maximal run of white space and comments into one
\* WhiteSpace token: the tokens it returns never hold two consecutive
\* WhiteSpace tokens.
C13_WhiteSpaceMerged ==
  pc = "returned" =>
    \A i \in 1..Len(toks)-1 :
      ~(toks[i].type = "WhiteSpace" /\ toks[i+1].type = "WhiteSpace")

\* The scan position is at the first byte of a maximal run of digits and
\* dots that ends just before offset e.
NumberRunTo(e) ==
  /\ Scanning
  /\ (pos = 0 \/ At(content, pos - 1) \notin numberChar)
  /\ e \in pos+1..Len(content)
  /\ \A k \in pos..e-1 : At(content, k) \in numberChar
  /\ (e = Len(content) \/ At(content, e) \notin numberChar)

\* C14: a maximal run of digits and dots is lexed as one NumberLiteral token
\* over the whole run, also when the run holds nothing but dots.
C14_NumberRun ==
  [][ \A e \in 1..Len(content) :
        NumberRunTo(e) =>
          toks' = Append(toks, [type |-> "NumberLiteral",
                                loc |-> Location(pos, e - pos, filename)])
    ]_vars

\* C15: at every scan position chooseTok returns a length of at least 1,
\* and the log never holds the InternalError "Illegal empty token".
C15_NoEmptyToken ==
  /\ Scanning => chooseTok(substr(content, pos)).length >= 1
  /\ \A i \in 1..Len(msgs) :
       /\ msgs[i].type # "InternalError"
       /\ msgs[i].msg # "Illegal empty token"

\* lex has returned from a text on which chooseTok matched a token and also
\* fell back on the unmatched byte: the log holds the Error of the fallback
\* and nothing else.
C15_Witness ==
  /\ pc = "returned"
  /\ toks # <<>>
  /\ msgs # <<>>
  /\ \A i \in 1..Len(msgs) : msgs[i].msg = "Unexpected character"

\* C16: lex terminates on every text: each iteration of the loop moves the
\* scan position forward by at least one byte, and lex returns.
C16_LexTerminates ==
  /\ [][ (pc = "lex" /\ pc' = "lex") => pos' >= pos + 1 ]_vars
  /\ <>(pc = "returned")

\* lex has returned after several iterations, the scan position at or past
\* the end of the text.
C16_Witness ==
  /\ pc = "returned"
  /\ Len(toks) + Len(msgs) >= 3
  /\ pos >= Len(content)

----------------------------------------------------------------------------
(* Properties of the tree builder and of the extractor.                    *)

\* The tree builder has returned a tree for the text.
Built == pc = "astReturned" /\ tree # <<>>

\* The tokens of the text that take part in its structure.
structure == dropWhiteSpace(toks)

\* The nesting depth after the tokens lo..k of ts.
depth(ts, lo, k) ==
  Cardinality({j \in lo..k : ts[j].type = "OpenParen"})
    - Cardinality({j \in lo..k : ts[j].type = "CloseParen"})

\* The OpenParen at index i of ts is closed by the CloseParen at index j.
closes(ts, i, j) ==
  /\ i < j
  /\ ts[i].type = "OpenParen"
  /\ ts[j].type = "CloseParen"
  /\ depth(ts, i, j) = 0
  /\ \A k \in i..j-1 : depth(ts, i, k) > 0

\* The commas at the top level of the parentheses i..j.
commas(ts, i, j) ==
  {k \in i+1..j-1 : ts[k].type = "Comma" /\ depth(ts, i, k) = 1}

\* The token sequences between the parentheses i..j, split at the commas
\* of their top level; none when nothing is between them.
elements(ts, i, j) ==
  LET marks == commas(ts, i, j) \cup {i, j}
      mark(m) == CHOOSE k \in marks : Cardinality({x \in marks : x < k}) = m
  IN  IF j = i + 1 THEN <<>>
      ELSE [m \in 1..Cardinality(marks)-1 |->
              SubSeq(ts, mark(m - 1) + 1, mark(m) - 1)]

\* The tree the builder makes of a token sequence on its own.
treeOf(ts) == ast(ts, content, filename).tree

\* The trees of the token sequences segs, in order.
treesOf(segs) == [m \in 1..Len(segs) |-> treeOf(segs[m])[1]]

\* The nodes of a tree.
RECURSIVE Nodes(_)
Nodes(t) == {t} \cup UNION {Nodes(t.children[k]) : k \in 1..Len(t.children)}

\* The parentheses i..j of ts follow no Symbol and hold exactly one element.
Grouping(ts, i, j) ==
  /\ closes(ts, i, j)
  /\ (i = 1 \/ ts[i-1].type # "Symbol")
  /\ j > i + 1
  /\ commas(ts, i, j) = {}

\* C17: parentheses that follow no Symbol and hold exactly one element are
\* transparent to the tree builder: they leave no node in the tree, and
\* when they enclose the whole text the tree is that of the inner element.
C17_GroupingTransparent ==
  Built =>
    \A i \in 1..Len(structure), j \in 1..Len(structure) :
      Grouping(structure, i, j) =>
        /\ \A n \in Nodes(tree[1]) : n.value # structure[i]
        /\ (i = 1 /\ j = Len(structure)) =>
             tree = treeOf(SubSeq(structure, 2, j - 1))

\* C17 as amended: parentheses that follow no Symbol and hold exactly one
\* element are kept by the tree builder as a node whose value is the
\* OpenParen token and whose only child is the tree of the inner element.
C17_GroupingKept ==
  Built =>
    \A i \in 1..Len(structure), j \in 1..Len(structure) :
      Grouping(structure, i, j) =>
        /\ Len(treeOf(SubSeq(structure, i + 1, j - 1))) = 1
        /\ \E n \in Nodes(tree[1]) :
             /\ n.value = structure[i]
             /\ n.children = treeOf(SubSeq(structure, i + 1, j - 1))
        /\ (i = 1 /\ j = Len(structure)) => tree[1].value = structure[1]

\* The tree of the text "(1+a)" has been built: its root is the
\* OpenParen token, over the one operator node.
C17_Witness ==
  /\ Built
  /\ Grouping(structure, 1, Len(structure))
  /\ tree[1].value.type = "OpenParen"
  /\ Len(tree[1].children) = 1
  /\ tree[1].children[1].value.type = "Operator"
  /\ tree[1].children[1].children[1].value.type = "NumberLiteral"
  /\ tree[1].children[1].children[2].value.type = "Symbol"

\* The operators of ts that lie outside every parenthesis.
topOperators(ts) ==
  {k \in 1..Len(ts) : ts[k].type = "Operator" /\ depth(ts, 1, k) = 0}

\* The last operator of ts outside every parenthesis.
lastOperator(ts) ==
  CHOOSE k \in topOperators(ts) : \A x \in topOperators(ts) : x <= k

\* C18: the tree of terms joined by operators is a node whose value is an
\* operator token and whose children are [left, right] in the order of the
\* text; a chain is folded from the left: the root is the last operator,
\* its left child the tree of all that comes before it, its right child the
\* last term.
C18_InfixLeftToRight ==
  (Built /\ topOperators(structure) # {}) =>
    LET p == lastOperator(structure) IN
      /\ tree[1].value = structure[p]
      /\ Len(tree[1].children) = 2
      /\ <<tree[1].children[1]>> = treeOf(SubSeq(structure, 1, p - 1))
      /\ <<tree[1].children[2]>> =
           treeOf(SubSeq(structure, p + 1, Len(structure)))
      /\ topOperators(SubSeq(structure, p + 1, Len(structure))) = {}

\* The tree of a chain of two operators whose operands are a number, a call
\* and a symbol has been built: the left child of the root is the node of
\* the first operator.
C18_Witness ==
  /\ Built
  /\ Cardinality(topOperators(structure)) = 2
  /\ tree[1].value.type = "Operator"
  /\ tree[1].children[1].value.type = "Operator"
  /\ tree[1].children[1].children[1].value.type = "NumberLiteral"
  /\ tree[1].children[1].children[2].value.type = "Symbol"
  /\ structure[4].type = "OpenParen"
  /\ tree[1].children[2].value.type = "Symbol"
  /\ tree[1].children[2].children = <<>>

\* C19: a Symbol followed at once by a parenthesized list is a node of the
\* tree whose value is the Symbol token and whose children are the trees of
\* the elements of the list in order, the list being split at the commas of
\* its own level only; with nothing between the parentheses the node has
\* no children.
C19_CallChildren ==
  Built =>
    \A i \in 1..Len(structure), j \in 1..Len(structure) :
      (structure[i].type = "Symbol" /\ closes(structure, i + 1, j)) =>
        LET args == elements(structure, i + 1, j) IN
          /\ \A m \in 1..Len(args) : Len(treeOf(args[m])) = 1
          /\ \E n \in Nodes(tree[1]) :
               /\ n.value = structure[i]
               /\ n.children = treesOf(args)

\* The tree of a call like "a((a,1))" has been built: the comma lies
\* inside the inner parentheses, the call has one child, the node of the
\* inner parentheses, which has two children of its own.
C19_Witness ==
  /\ Built
  /\ structure[1].type = "Symbol"
  /\ closes(structure, 2, Len(structure))
  /\ commas(structure, 2, Len(structure)) = {}
  /\ \E k \in 1..Len(structure) : structure[k].type = "Comma"
  /\ tree[1].value = structure[1]
  /\ Len(tree[1].children) = 1
  /\ tree[1].children[1].value.type = "OpenParen"
  /\ Len(tree[1].children[1].children) = 2

\* The extractor has returned a Value for the tree of the text.
Extracted == pc = "parseValueReturned" /\ o_mod # <<>>

\* The Value the extractor makes of a token sequence on its own.
valueOf(ts) == parseValue(treeOf(ts)[1], content)

\* A Value and the Values below it.
RECURSIVE Values(_)
Values(v) == {v} \cup UNION {Values(v.args[k].value) : k \in 1..Len(v.args)}

\* The names "#0" to "#9".
positional(k) ==
  <<"#", <<"0", "1", "2", "3", "4", "5", "6", "7", "8", "9">>[k + 1]>>

\* The Value claimed for the parentheses i..j of ts: the name "(", and for
\* each element of the list, in order, an argument named after its index
\* that holds the Value of the element.
tupleValue(ts, i, j) ==
  [name |-> <<"(">>,
   args |-> [m \in 1..Len(elements(ts, i, j)) |->
               [name |-> positional(m - 1),
                value |-> valueOf(elements(ts, i, j)[m])]]]

\* C20: parentheses that follow no Symbol and hold two or more elements
\* separated by commas are extracted, at any depth, as a Value named "("
\* whose args are the Values of the elements in order, the argument at
\* index i being named "#i", counted from 0 within its own parentheses.
C20_TupleValue ==
  Extracted =>
    \A i \in 1..Len(structure), j \in 1..Len(structure) :
      (/\ closes(structure, i, j)
       /\ (i = 1 \/ structure[i-1].type # "Symbol")
       /\ commas(structure, i, j) # {}) =>
        /\ \A m \in 1..Len(elements(structure, i, j)) :
             Len(treeOf(elements(structure, i, j)[m])) = 1
        /\ tupleValue(structure, i, j) \in Values(o_mod[1])
        /\ (i = 1 /\ j = Len(structure)) =>
             o_mod[1] = tupleValue(structure, i, j)

\* The Value of a text like "(a,(a,1))" has been extracted: a "(" of two
\* arguments #0 and #1, the second one a "(" of two arguments #0 and #1.
C20_Witness ==
  /\ Extracted
  /\ o_mod[1].name = <<"(">>
  /\ Len(o_mod[1].args) = 2
  /\ o_mod[1].args[1].name = <<"#", "0">>
  /\ o_mod[1].args[1].value.args = <<>>
  /\ o_mod[1].args[2].name = <<"#", "1">>
  /\ o_mod[1].args[2].value.name = <<"(">>
  /\ Len(o_mod[1].args[2].value.args) = 2
  /\ o_mod[1].args[2].value.args[1].name = <<"#", "0">>
  /\ o_mod[1].args[2].value.args[2].name = <<"#", "1">>

\* parseDefinition has returned.
DefinitionReturned == pc = "parseDefinitionReturned"

\* The tokens of the text are a definition whose "=" is the token at index
\* eq: a Symbol, then at once the "=" or a parenthesized list of Symbols
\* followed by the "=", then an expression.
DefinitionAt(ts, eq) ==
  /\ TypeAt(ts, 1) = "Symbol"
  /\ isDeclaration(ts, eq, content)
  /\ \/ eq = 2
     \/ /\ closes(ts, 2, eq - 1)
        /\ \A m \in 1..Len(elements(ts, 2, eq - 1)) :
             /\ Len(elements(ts, 2, eq - 1)[m]) = 1
             /\ elements(ts, 2, eq - 1)[m][1].type = "Symbol"
  /\ Len(treeOf(SubSeq(ts, eq + 1, Len(ts)))) = 1

\* The parameters of the definition whose "=" is at index eq: the tokens
\* between the parentheses of the head, none for a bare name.
parameters(ts, eq) ==
  IF eq = 2 THEN <<>>
  ELSE [m \in 1..Len(elements(ts, 2, eq - 1)) |->
          elements(ts, 2, eq - 1)[m][1]]

\* C21: parseDefinition on "name(p1, ..., pn) = value" yields a Definition
\* named by the head Symbol whose args are the n parameters in order, each
\* named by its identifier and without a value, and none for a bare name;
\* its value is the Value of the right-hand side, in which every argument
\* is named by its position, "#0", "#1", ...
C21_DefinitionHead ==
  DefinitionReturned =>
    \A eq \in 1..Len(structure) :
      DefinitionAt(structure, eq) =>
        /\ Len(o_mod) = 1
        /\ o_mod[1].name = getString(structure[1].loc, content)
        /\ Len(o_mod[1].args) = Len(parameters(structure, eq))
        /\ \A m \in 1..Len(o_mod[1].args) :
             /\ o_mod[1].args[m].name =
                  getString(parameters(structure, eq)[m].loc, content)
             /\ o_mod[1].args[m].value = <<>>
        /\ o_mod[1].value =
             <<valueOf(SubSeq(structure, eq + 1, Len(structure)))>>
        /\ \A v \in Values(o_mod[1].value[1]) :
             \A k \in 1..Len(v.args) : v.args[k].name = positional(k - 1)

\* The Definition of a text like "a(b,a) = a(1,a)" has been extracted: two
\* parameters b and a without values, and as value a call of two
\* arguments #0 and #1.
C21_Witness ==
  /\ DefinitionReturned
  /\ Len(o_mod) = 1
  /\ msgs = <<>>
  /\ o_mod[1].name = <<"a">>
  /\ Len(o_mod[1].args) = 2
  /\ o_mod[1].args[1].name = <<"b">>
  /\ o_mod[1].args[2].name = <<"a">>
  /\ o_mod[1].value[1].name = <<"a">>
  /\ Len(o_mod[1].value[1].args) = 2
  /\ o_mod[1].value[1].args[2].name = <<"#", "1">>
  /\ \E k \in 1..Len(toks) : toks[k].type = "WhiteSpace"

\* toks holds no token other than WhiteSpace tokens.
OnlyWhiteSpace == \A k \in 1..Len(toks) : toks[k].type = "WhiteSpace"

\* C22: lex on the empty text returns no token and appends no message; the
\* tree builder on no token, or on WhiteSpace tokens only, returns no tree
\* and appends no message.
C22_NothingFromNothing ==
  [][/\ (pc = "lex" /\ pc' = "returned" /\ content = <<>>) =>
          (toks' = <<>> /\ msgs' = <<>>)
     /\ (pc = "returned" /\ pc' = "astReturned" /\ OnlyWhiteSpace) =>
          (tree' = <<>> /\ msgs' = msgs)]_vars

\* The tree builder has returned on two or more WhiteSpace tokens and
\* nothing else, without a tree and without a message.
C22_Witness ==
  /\ pc = "astReturned"
  /\ Len(toks) >= 2
  /\ OnlyWhiteSpace
  /\ tree = <<>>
  /\ msgs = <<>>

\* The token type of a bracket or separator byte, "" for any other byte.
punctuation(c) ==
  CASE c = "(" -> "OpenParen"
    [] c = ")" -> "CloseParen"
    [] c = "{" -> "OpenBrace"
    [] c = "}" -> "CloseBrace"
    [] c = "[" -> "OpenBracket"
    [] c = "]" -> "CloseBracket"
    [] c = ";" -> "SemiColon"
    [] c = "," -> "Comma"
    [] OTHER -> ""

\* The text at the scan position begins with the two bytes a, b.
BeginsWith(a, b) ==
  /\ Scanning
  /\ pos + 1 < Len(content)
  /\ cur = a
  /\ At(content, pos + 1) = b

\* The iteration of lex appends one token of the given type and length at
\* the scan position, moves past it and appends no message.
Emits(type, length) ==
  /\ toks' = Append(toks, [type |-> type,
                           loc |-> Location(pos, length, filename)])
  /\ pos' = pos + length
  /\ msgs' = msgs

\* C23: at a scan position on "-|" lex emits a PreCond token of length 2,
\* on "|-" a PostCond token of length 2, never an Operator run; on a
\* bracket, ";" or "," it emits the one-byte token of that byte.
C23_LiteralsFirst ==
  [][/\ BeginsWith("-", "|") => Emits("PreCond", 2)
     /\ BeginsWith("|", "-") => Emits("PostCond", 2)
     /\ (Scanning /\ punctuation(cur) # "") => Emits(punctuation(cur), 1)
    ]_vars

\* lex has returned on a text like "-||-": a PreCond token and a PostCond
\* token, each of two operator bytes, and no Operator token.
C23_Witness ==
  /\ pc = "returned"
  /\ Len(toks) = 2
  /\ toks[1].type = "PreCond"
  /\ toks[1].loc.length = 2
  /\ toks[2].type = "PostCond"
  /\ toks[2].loc.length = 2
  /\ \A k \in 0..Len(content)-1 : At(content, k) \in operatorChar

\* The text has the two bytes a, b at offsets s and s + 1.
Mark(s, a, b) ==
  /\ s + 1 < Len(content)
  /\ At(content, s) = a
  /\ At(content, s + 1) = b

\* A line comment starts at offset s and holds offset k: it starts with #
\* or //, and no newline lies from s up to k.
InLineComment(s, k) ==
  /\ s <= k
  /\ (At(content, s) = "#" \/ Mark(s, "/", "/"))
  /\ \A j \in s..k : At(content, j) # "\n"

\* A block comment starts at offset s and holds offset k: it starts with
\* /*, and no */ that lies after the /* ends before k.
InBlockComment(s, k) ==
  /\ s <= k
  /\ Mark(s, "/", "*")
  /\ \A j \in s+2..k-2 : ~Mark(j, "*", "/")

\* The offsets of the text covered by the token t.
covered(t) ==
  {k \in t.loc.start..t.loc.start + t.loc.length - 1 : k < Len(content)}

\* The offset just past the token t.
t_end(t) == t.loc.start + t.loc.length

\* The first offset covered by t that holds no white space byte is the
\* start of a block comment that t ends before the end of the text.
ClosesBlockComment(t, s) ==
  /\ s \in covered(t)
  /\ \A j \in covered(t) : j < s => At(content, j) \in whiteSpace
  /\ Mark(s, "/", "*")
  /\ t.loc.start + t.loc.length < Len(content)

\* C24: every byte covered by a WhiteSpace token is a white space byte or
\* lies inside a line comment or a block comment that starts within the
\* token; and a token that ends a block comment before the end of the text
\* holds a */ after the opening /* of the comment.
C24_WhiteSpaceCovers ==
  \A i \in 1..Len(toks) :
    toks[i].type = "WhiteSpace" =>
      /\ \A k \in covered(toks[i]) :
           \/ At(content, k) \in whiteSpace
           \/ \E s \in covered(toks[i]) :
                InLineComment(s, k) \/ InBlockComment(s, k)
      /\ \A s \in covered(toks[i]) :
           ClosesBlockComment(toks[i], s) =>
             \E j \in s+2..t_end(toks[i])-2 : Mark(j, "*", "/")

\* getTree is at line 20 with a fatal message in the log: it is about to
\* evaluate *tree.
Dereferences == pc = "built" /\ done(msgs)

\* C25: whenever getTree evaluates *tree, the optional the tree builder
\* returned holds a tree.
C25_NoAbsentDeref == Dereferences => tree # "none"

====
